---------------------------- MODULE Spec2Model ----------------------------
(***************************************************************************)
(* Model of the Med-Chat-Bot retrieval-augmented question answering        *)
(* service: src/app.py (startup and the /query handler) and                *)
(* src/utils/retrieval_qa.py (retriever, composer, generator, response     *)
(* cleaner and query validator).                                           *)
(*                                                                         *)
(* Text is a sequence of one-character strings, so that the string         *)
(* operations of the code (replace, strip, lower, substring test) are      *)
(* computed and not assumed.                                               *)
(***************************************************************************)
EXTENDS Integers, Sequences, FiniteSets, TLC

VARIABLES
    fmt,        \* one application chain of format_medical_response
    val,        \* one application of validate_medical_query
    ret,        \* one application of retrieve_relevant_context
    phase,      \* app.py module state: "boot", "serving" or "fatal"
    keySet,     \* whether GROQ_API_KEY is set in the environment
    files,      \* which of the two persisted vector-store files exist
    corpus,     \* the chunks of the source document (ranked, with scores)
    boot,       \* what startup saw and did
    vector_db,  \* the store the process serves from
    pc,         \* position of the request being handled
    request,    \* the request and what its collaborators will answer
    question,   \* the handler's trimmed question / the function's query
    log,        \* the stages the request has run, in order
    context,    \* retrieve_relevant_context's return value
    prompt,     \* the composed prompt
    gen,        \* how generate_medical_response ended
    http        \* the response of the /query handler

pureVars == <<fmt, val, ret>>
bootVars == <<phase, keySet, files, corpus, boot, vector_db>>
reqVars == <<pc, request, question, log, context, prompt, gen, http>>
appVars == <<phase, keySet, files, corpus, boot, vector_db,
             pc, request, question, log, context, prompt, gen, http>>
vars == <<fmt, val, ret, phase, keySet, files, corpus, boot, vector_db,
          pc, request, question, log, context, prompt, gen, http>>

-----------------------------------------------------------------------------
(* Bounds of the model *)

\* longest generated completion text given to format_medical_response
MaxLen == 6
\* longest generated query given to validate_medical_query
MaxQLen == 5
\* most chunks a vector store holds
MaxChunks == 2

-----------------------------------------------------------------------------
(* Text helpers: Python str operations on character sequences *)

NL == "\n"

\* characters str.strip() removes (the ASCII whitespace)
Whitespace == {" ", NL, "\t", "\r", "\f"}

\* all texts of length 0..n over an alphabet
Texts(alphabet, n) == UNION {[1..k -> alphabet] : k \in 0..n}

StartsWith(s, p) == Len(s) >= Len(p) /\ SubSeq(s, 1, Len(p)) = p

EndsWith(s, p) == Len(s) >= Len(p) /\ SubSeq(s, Len(s) - Len(p) + 1, Len(s)) = p

\* Python `sub in s`
Contains(s, sub) ==
    \E i \in 0..(Len(s) - Len(sub)) : SubSeq(s, i + 1, i + Len(sub)) = sub

\* Python s.replace(old, new) for a non-empty old: one left-to-right scan,
\* non-overlapping occurrences, the replacement text is not rescanned
RECURSIVE Replace(_, _, _)
Replace(s, old, new) ==
    IF Len(s) < Len(old) THEN s
    ELSE IF StartsWith(s, old)
         THEN new \o Replace(SubSeq(s, Len(old) + 1, Len(s)), old, new)
         ELSE <<Head(s)>> \o Replace(Tail(s), old, new)

RECURSIVE LStrip(_)
LStrip(s) == IF s # <<>> /\ Head(s) \in Whitespace THEN LStrip(Tail(s)) ELSE s

RECURSIVE RStrip(_)
RStrip(s) ==
    IF s # <<>> /\ s[Len(s)] \in Whitespace THEN RStrip(SubSeq(s, 1, Len(s) - 1)) ELSE s

\* Python s.strip()
Strip(s) == RStrip(LStrip(s))

UpperCase == <<"A","B","C","D","E","F","G","H","I","J","K","L","M",
               "N","O","P","Q","R","S","T","U","V","W","X","Y","Z">>
LowerCase == <<"a","b","c","d","e","f","g","h","i","j","k","l","m",
               "n","o","p","q","r","s","t","u","v","w","x","y","z">>

LowerChar(c) ==
    IF \E i \in 1..26 : UpperCase[i] = c
    THEN LowerCase[CHOOSE i \in 1..26 : UpperCase[i] = c]
    ELSE c

UpperChar(c) ==
    IF \E i \in 1..26 : LowerCase[i] = c
    THEN UpperCase[CHOOSE i \in 1..26 : LowerCase[i] = c]
    ELSE c

\* Python s.lower() on ASCII text
Lower(s) == [i \in 1..Len(s) |-> LowerChar(s[i])]

-----------------------------------------------------------------------------
(* format_medical_response, src/utils/retrieval_qa.py:80-95 *)

disclaimer == <<>>

format_medical_response(response) ==
    LET r1 == Replace(response, <<"*", "*">>, <<>>)
        r2 == Replace(r1, <<"*">>, <<>>)
        r3 == Replace(r2, <<NL, NL, NL>>, <<NL, NL>>)
        r4 == Strip(r3)
    IN  IF ~EndsWith(r4, Strip(disclaimer)) THEN r4 \o disclaimer ELSE r4

-----------------------------------------------------------------------------
(* validate_medical_query, src/utils/retrieval_qa.py:97-108 *)

medical_indicators == {
       <<"s","y","m","p","t","o","m">>,
       <<"d","i","s","e","a","s","e">>,
       <<"c","o","n","d","i","t","i","o","n">>,
       <<"t","r","e","a","t","m","e","n","t">>,
       <<"m","e","d","i","c","i","n","e">>,
       <<"m","e","d","i","c","a","t","i","o","n">>,
       <<"d","i","a","g","n","o","s","i","s">>,
       <<"d","o","c","t","o","r">>,
       <<"h","o","s","p","i","t","a","l">>,
       <<"p","a","i","n">>,
       <<"f","e","v","e","r">>,
       <<"i","n","f","e","c","t","i","o","n">>,
       <<"m","e","d","i","c","a","l">>,
       <<"h","e","a","l","t","h">>,
       <<"i","l","l","n","e","s","s">>,
       <<"t","h","e","r","a","p","y">>,
       <<"s","u","r","g","e","r","y">>,
       <<"p","r","o","c","e","d","u","r","e">>,
       <<"b","l","o","o","d">>,
       <<"h","e","a","r","t">>,
       <<"l","u","n","g">>,
       <<"b","r","a","i","n">>,
       <<"l","i","v","e","r">>,
       <<"k","i","d","n","e","y">>,
       <<"c","a","n","c","e","r">>,
       <<"d","i","a","b","e","t","e","s">>,
       <<"h","y","p","e","r","t","e","n","s","i","o","n">>,
       <<"p","n","e","u","m","o","n","i","a">>,
       <<"w","h","a","t"," ","i","s">>,
       <<"h","o","w"," ","t","o"," ","t","r","e","a","t">>,
       <<"c","a","u","s","e","s"," ","o","f">>,
       <<"p","r","e","v","e","n","t","i","o","n">>,
       <<"c","u","r","e">>,
       <<"r","e","l","i","e","f">> }

\* the validator with the lower-casing step left out
validate_case_sensitive(query) ==
    \E indicator \in medical_indicators : Contains(query, indicator)

validate_medical_query(query) ==
    LET query_lower == Lower(query)
    IN  \E indicator \in medical_indicators : Contains(query_lower, indicator)

-----------------------------------------------------------------------------
(* The vector store and similarity_search (utils/vector_database)          *)

\* chunk texts and relevance scores (in thousandths) the stores are built of
ChunkTexts == {<<" ", "b", NL>>, <<"c">>}
Scores == {874, 500}

\* a store lists its chunks by descending relevance to the query at hand
Stores ==
    {s \in UNION {[1..n -> [text : ChunkTexts, score : Scores]] : n \in 0..MaxChunks} :
        \A i \in 1..(Len(s) - 1) : s[i].score >= s[i + 1].score}

Min(a, b) == IF a <= b THEN a ELSE b

\* similarity_search(query, k): the k nearest chunks, fewer when the store
\* holds fewer; a failure inside the search (embedding, index) is caught
\* there and yields no results
similarity_search(db, k, fails) ==
    IF fails THEN <<>> ELSE SubSeq(db, 1, Min(k, Len(db)))

-----------------------------------------------------------------------------
(* retrieve_relevant_context, src/utils/retrieval_qa.py:25-42 *)

DefaultTopK == 5
DividerWidth == 50

\* a context string is a sequence of segments: literal text, a character
\* repeated n times, or one labelled block
Lit(s) == [kind |-> "lit", s |-> s, n |-> 1, rank |-> 0, relevance |-> 0, text |-> <<>>]

Rep(s, n) == [kind |-> "rep", s |-> s, n |-> n, rank |-> 0, relevance |-> 0, text |-> <<>>]

NoInfoSentinel == <<Lit("No relevant medical information found in the knowledge base.")>>

\* f"{score:.2f}": the score rounded to hundredths
Format2f(score) == (score + 5) \div 10

\* f"[Source {i} - Relevance: {score:.2f}]\n{text.strip()}"
context_piece(i, result) ==
    [kind |-> "piece", s |-> "[Source {i} - Relevance: {score:.2f}]\n{text}", n |-> 1,
     rank |-> i, relevance |-> Format2f(result.score), text |-> Strip(result.text)]

\* sep.join(pieces)
RECURSIVE Join(_, _)
Join(pieces, sep) ==
    IF pieces = <<>> THEN <<>>
    ELSE IF Len(pieces) = 1 THEN pieces
    ELSE <<Head(pieces), sep>> \o Join(Tail(pieces), sep)

\* the retriever numbering its sources from 0
format_results_from_zero(results) ==
    IF results = <<>>
    THEN NoInfoSentinel
    ELSE LET contexts == [i \in 1..Len(results) |-> context_piece(i - 1, results[i])]
         IN  <<Lit("\n\n"), Rep("=", DividerWidth)>> \o Join(contexts, Lit("\n\n"))

\* lines 30-42: what the retriever makes of the search results
format_results(results) ==
    IF results = <<>>
    THEN NoInfoSentinel
    ELSE LET contexts == [i \in 1..Len(results) |-> context_piece(i, results[i])]
         IN  <<Lit("\n\n"), Rep("=", DividerWidth)>> \o Join(contexts, Lit("\n\n"))

retrieve_relevant_context(db, top_k, fails) ==
    format_results(similarity_search(db, top_k, fails))

\* the labelled blocks of a context string, in order
Pieces(ctx) == SelectSeq(ctx, LAMBDA seg : seg.kind = "piece")

-----------------------------------------------------------------------------
(* Inputs of the pure-function specifications *)

FmtAlphabet == {"*", NL, " ", "a"}

HelloWorld ==
    <<"*","*","H","e","l","l","o","*","*">> \o <<NL, NL, NL, NL>> \o <<"W","o","r","l","d">>

HelloWorldClean == <<"H","e","l","l","o">> \o <<NL, NL>> \o <<"W","o","r","l","d">>

FmtInputs == Texts(FmtAlphabet, MaxLen) \cup {HelloWorld}

QueryAlphabet == {"p", "a", "i", "n", "A", " "}

QueryExamples == {
    <<"W","h","a","t"," ","c","a","u","s","e","s"," ","f","e","v","e","r","?">>,
    <<"W","h","a","t","'","s"," ","t","h","e"," ","w","e","a","t","h","e","r","?">>,
    <<"H","E","A","R","T"," ","o","f"," ","t","h","e"," ","m","a","t","t","e","r">>,
    <<"P","n","e","u","m","o","n","i","a">> }

QueryInputs == Texts(QueryAlphabet, MaxQLen) \cup QueryExamples

FmtOff == [pc |-> "off"]
ValOff == [pc |-> "off"]
RetOff == [pc |-> "off"]

NoRequest == [entry |-> "none"]
NoGen == [kind |-> "none", value |-> <<>>]
NoHttp == [kind |-> "none", status |-> 0, error |-> "", question |-> <<>>, answer |-> <<>>]
NoPrompt == [template |-> "", context |-> <<>>, question |-> <<>>]
NoBoot == [branch |-> "none", index_seen |-> FALSE, meta_seen |-> FALSE, error |-> ""]

\* the application part of a state in which the application does not run
AppOff ==
    /\ phase = "off"
    /\ keySet = FALSE
    /\ files = [index |-> FALSE, meta |-> FALSE]
    /\ corpus = <<>>
    /\ boot = NoBoot
    /\ vector_db = <<>>
    /\ pc = "off"
    /\ request = NoRequest
    /\ question = <<>>
    /\ log = <<>>
    /\ context = <<>>
    /\ prompt = NoPrompt
    /\ gen = NoGen
    /\ http = NoHttp

-----------------------------------------------------------------------------
(* SpecFormat: format_medical_response applied once, then to its own output *)

InitFormat ==
    /\ fmt \in [pc : {"start"}, response : FmtInputs, formatted : {<<>>}, reformatted : {<<>>}]
    /\ val = ValOff
    /\ ret = RetOff
    /\ AppOff

FormatOnce ==
    /\ fmt.pc = "start"
    /\ fmt' = [fmt EXCEPT !.pc = "once",
                          !.formatted = format_medical_response(fmt.response)]
    /\ UNCHANGED <<val, ret, appVars>>

FormatTwice ==
    /\ fmt.pc = "once"
    /\ fmt' = [fmt EXCEPT !.pc = "twice",
                          !.reformatted = format_medical_response(fmt.formatted)]
    /\ UNCHANGED <<val, ret, appVars>>

NextFormat == FormatOnce \/ FormatTwice

SpecFormat == InitFormat /\ [][NextFormat]_vars

-----------------------------------------------------------------------------
(* SpecValidate: validate_medical_query applied to a query *)

InitValidate ==
    /\ val \in [pc : {"start"}, query : QueryInputs, is_medical : {FALSE}]
    /\ fmt = FmtOff
    /\ ret = RetOff
    /\ AppOff

Validate ==
    /\ val.pc = "start"
    /\ val' = [val EXCEPT !.pc = "done",
                          !.is_medical = validate_medical_query(val.query)]
    /\ UNCHANGED <<fmt, ret, appVars>>

NextValidate == Validate

SpecValidate == InitValidate /\ [][NextValidate]_vars

-----------------------------------------------------------------------------
(* SpecRetrieve: retrieve_relevant_context(query, top_k) against a store *)

InitRetrieve ==
    /\ ret \in [pc : {"start"}, db : Stores, top_k : 0..DefaultTopK,
                fails : BOOLEAN, out : {<<>>}]
    /\ fmt = FmtOff
    /\ val = ValOff
    /\ AppOff

Retrieve ==
    /\ ret.pc = "start"
    /\ ret' = [ret EXCEPT !.pc = "done",
                          !.out = retrieve_relevant_context(ret.db, ret.top_k, ret.fails)]
    /\ UNCHANGED <<fmt, val, appVars>>

NextRetrieve == Retrieve

SpecRetrieve == InitRetrieve /\ [][NextRetrieve]_vars

-----------------------------------------------------------------------------
(* Spec: the application. Startup, src/app.py:17-50 *)

Both(f) == f.index /\ f.meta

\* load_vector_database(index_path, meta_path): the persisted store
load_vector_database(persisted) == persisted

\* process_pdf_complete(PDF_PATH): the chunks of the document, none when it
\* cannot be processed
process_pdf_complete(document) == document

\* add_to_vector_database(embeddings, chunks): a store holding the chunks
add_to_vector_database(chunks) == chunks

\* save_vector_database(db, index_path, meta_path) writes both files
save_vector_database(f) == [index |-> TRUE, meta |-> TRUE]

InitApp ==
    /\ phase = "boot"
    /\ keySet \in BOOLEAN
    /\ files \in [index : BOOLEAN, meta : BOOLEAN]
    /\ corpus \in Stores
    /\ Both(files) => corpus # <<>>
    /\ boot = NoBoot
    /\ vector_db = <<>>
    /\ pc = "idle"
    /\ request = NoRequest
    /\ question = <<>>
    /\ log = <<>>
    /\ context = <<>>
    /\ prompt = NoPrompt
    /\ gen = NoGen
    /\ http = NoHttp
    /\ fmt = FmtOff
    /\ val = ValOff
    /\ ret = RetOff

\* lines 19-22: no API key, the process refuses to start
StartupNoKey ==
    /\ phase = "boot"
    /\ ~keySet
    /\ phase' = "fatal"
    /\ boot' = [boot EXCEPT !.error = "GROQ_API_KEY not set in environment"]
    /\ UNCHANGED <<keySet, files, corpus, vector_db, reqVars, pureVars>>

\* the load branch taken when either file exists
StartupLoadEither ==
    /\ phase = "boot"
    /\ keySet
    /\ files.index \/ files.meta
    /\ vector_db' = load_vector_database(corpus)
    /\ boot' = [boot EXCEPT !.branch = "load", !.index_seen = files.index,
                            !.meta_seen = files.meta]
    /\ phase' = "serving"
    /\ UNCHANGED <<keySet, files, corpus, reqVars, pureVars>>

\* lines 37-40: both files exist, load the store
StartupLoad ==
    /\ phase = "boot"
    /\ keySet
    /\ files.index /\ files.meta
    /\ vector_db' = load_vector_database(corpus)
    /\ boot' = [boot EXCEPT !.branch = "load", !.index_seen = files.index,
                            !.meta_seen = files.meta]
    /\ phase' = "serving"
    /\ UNCHANGED <<keySet, files, corpus, reqVars, pureVars>>

\* lines 41-46: the build branch, the document yields no chunks
StartupBuildFail ==
    /\ phase = "boot"
    /\ keySet
    /\ ~(files.index /\ files.meta)
    /\ process_pdf_complete(corpus) = <<>>
    /\ boot' = [boot EXCEPT !.branch = "build", !.index_seen = files.index,
                            !.meta_seen = files.meta,
                            !.error = "Failed to process PDF"]
    /\ phase' = "fatal"
    /\ UNCHANGED <<keySet, files, corpus, vector_db, reqVars, pureVars>>

\* lines 41-50: the build branch, the store is built and saved
StartupBuild ==
    /\ phase = "boot"
    /\ keySet
    /\ ~(files.index /\ files.meta)
    /\ process_pdf_complete(corpus) # <<>>
    /\ vector_db' = add_to_vector_database(process_pdf_complete(corpus))
    /\ files' = save_vector_database(files)
    /\ boot' = [boot EXCEPT !.branch = "build", !.index_seen = files.index,
                            !.meta_seen = files.meta]
    /\ phase' = "serving"
    /\ UNCHANGED <<keySet, corpus, reqVars, pureVars>>

-----------------------------------------------------------------------------
(* The /query handler, src/app.py:67-87 *)

QuestionTexts == {
    <<>>,
    <<" ", NL>>,
    <<" ", "p", "a", "i", "n">>,
    <<"C", "u", "r", "e", "?">>,
    <<"h", "i">> }

RawTexts == { <<"*", "*", "a", "*", "*">>, <<"a", NL, NL, NL, "b", " ">> }

\* what the completion endpoint does when called: a completion, an error
\* (network, timeout), a response with no choice, a choice with no content
Completions ==
    [kind : {"ok"}, content : RawTexts]
        \cup [kind : {"raise", "no_choice", "none_content"}, content : {<<>>}]

\* a POST /query body: the question field absent, not a string, or a text
QueryRequests ==
    {r \in [entry : {"query"}, field : {"absent", "nonstring", "text"},
            text : QuestionTexts, search_fails : BOOLEAN, completion : Completions] :
        r.field # "text" => r.text = <<>>}

\* a call generate_medical_response(query, groq_client)
DirectRequests ==
    [entry : {"direct"}, field : {"text"}, text : QuestionTexts,
     search_fails : BOOLEAN, completion : Completions]

\* positional arguments of the call at src/app.py:80
QueryCallArgs == 4
\* parameters of generate_medical_response, src/utils/retrieval_qa.py:44
GenerateParams == 2
\* top_k of the call at src/utils/retrieval_qa.py:50
TopK == 4

Apology == <<"I apologize, but I encountered an error while processing your medical question. Please try rephrasing your question or consult a healthcare professional directly.">>

ErrorResponse(status, message) ==
    [kind |-> "error", status |-> status, error |-> message,
     question |-> <<>>, answer |-> <<>>]

SuccessResponse(q, a) ==
    [kind |-> "success", status |-> 200, error |-> "", question |-> q, answer |-> a]

\* an exception leaving the handler: the framework's own 500 page
UnhandledResponse ==
    [kind |-> "unhandled", status |-> 500, error |-> "",
     question |-> <<>>, answer |-> <<>>]

\* the handler without its empty-question check
Query_Receive_NoEmptyCheck ==
    /\ phase = "serving"
    /\ pc \in {"idle", "done"}
    /\ \E r \in QueryRequests :
        /\ request' = r
        /\ context' = <<>>
        /\ prompt' = NoPrompt
        /\ gen' = NoGen
        /\ IF r.field = "nonstring"
           THEN /\ question' = <<>>
                /\ log' = <<>>
                /\ http' = UnhandledResponse
                /\ pc' = "done"
           ELSE /\ question' = Strip(r.text)
                /\ log' = <<"empty_check">>
                /\ http' = NoHttp
                /\ pc' = "q_validate"
    /\ UNCHANGED <<bootVars, pureVars>>

\* lines 69-72: read the question, trim it, reject an empty one
Query_Receive ==
    /\ phase = "serving"
    /\ pc \in {"idle", "done"}
    /\ \E r \in QueryRequests :
        /\ request' = r
        /\ context' = <<>>
        /\ prompt' = NoPrompt
        /\ gen' = NoGen
        /\ IF r.field = "nonstring"
           THEN \* .strip() of a value that is no string raises outside the try
                /\ question' = <<>>
                /\ log' = <<>>
                /\ http' = UnhandledResponse
                /\ pc' = "done"
           ELSE LET q == Strip(IF r.field = "absent" THEN <<>> ELSE r.text)
                IN  /\ question' = q
                    /\ log' = <<"empty_check">>
                    /\ IF q = <<>>
                       THEN /\ http' = ErrorResponse(400, "No question provided")
                            /\ pc' = "done"
                       ELSE /\ http' = NoHttp
                            /\ pc' = "q_validate"
    /\ UNCHANGED <<bootVars, pureVars>>

\* lines 75-76: the content gate
Query_Validate ==
    /\ pc = "q_validate"
    /\ log' = Append(log, "validate")
    /\ IF ~validate_medical_query(question)
       THEN /\ http' = ErrorResponse(400, "Inappropriate query")
            /\ pc' = "done"
       ELSE /\ http' = http
            /\ pc' = "q_generate"
    /\ UNCHANGED <<request, question, context, prompt, gen, bootVars, pureVars>>

\* lines 79-80 and 85-87: the call of generate_medical_response; a call whose
\* arguments do not fit the parameters raises TypeError before the body runs
Query_Generate ==
    /\ pc = "q_generate"
    /\ IF QueryCallArgs = GenerateParams
       THEN /\ pc' = "g_retrieve"
            /\ UNCHANGED <<gen, http>>
       ELSE /\ gen' = [kind |-> "raised", value |-> <<"TypeError">>]
            /\ http' = ErrorResponse(500, "Internal server error")
            /\ pc' = "done"
    /\ UNCHANGED <<request, question, log, context, prompt, bootVars, pureVars>>

-----------------------------------------------------------------------------
(* generate_medical_response, src/utils/retrieval_qa.py:44-78 *)

\* the function called with its declared parameters (query, groq_client)
Direct_Call ==
    /\ phase = "serving"
    /\ pc \in {"idle", "done"}
    /\ \E r \in DirectRequests :
        /\ request' = r
        /\ question' = r.text
    /\ log' = <<>>
    /\ context' = <<>>
    /\ prompt' = NoPrompt
    /\ gen' = NoGen
    /\ http' = NoHttp
    /\ pc' = "g_retrieve"
    /\ UNCHANGED <<bootVars, pureVars>>

\* the generator giving up when the retriever found nothing
Gen_Retrieve_SentinelIsError ==
    /\ pc = "g_retrieve"
    /\ log' = Append(log, "retrieve")
    /\ context' = retrieve_relevant_context(vector_db, TopK, request.search_fails)
    /\ IF context' = NoInfoSentinel
       THEN gen' = [kind |-> "returned", value |-> Apology] /\ pc' = "g_return"
       ELSE gen' = gen /\ pc' = "g_compose"
    /\ UNCHANGED <<request, question, prompt, http, bootVars, pureVars>>

\* line 50: step 1, retrieve the context
Gen_Retrieve ==
    /\ pc = "g_retrieve"
    /\ log' = Append(log, "retrieve")
    /\ context' = retrieve_relevant_context(vector_db, TopK, request.search_fails)
    /\ pc' = "g_compose"
    /\ UNCHANGED <<request, question, prompt, gen, http, bootVars, pureVars>>

\* lines 53-54: step 2, fill the template
Gen_Compose ==
    /\ pc = "g_compose"
    /\ log' = Append(log, "compose")
    /\ prompt' = [template |-> "create_medical_prompt_template",
                  context |-> context, question |-> question]
    /\ pc' = "g_complete"
    /\ UNCHANGED <<request, question, context, gen, http, bootVars, pureVars>>

\* the generator calling the endpoint again after a failed call
Gen_Complete_Retry ==
    /\ pc = "g_complete"
    /\ log' = Append(log, "complete")
    /\ IF request.completion.kind = "ok"
       THEN /\ gen' = [kind |-> "returned",
                       value |-> format_medical_response(request.completion.content)]
            /\ pc' = "g_return"
       ELSE /\ gen' = gen
            /\ pc' = "g_complete"
    /\ UNCHANGED <<request, question, context, prompt, http, bootVars, pureVars>>

\* lines 57-78: step 3, one call of the completion endpoint, and step 4, the
\* cleaning of its text; any exception gives the apology
Gen_Complete ==
    /\ pc = "g_complete"
    /\ log' = Append(log, "complete")
    /\ gen' = IF request.completion.kind = "ok"
              THEN [kind |-> "returned",
                    value |-> format_medical_response(request.completion.content)]
              ELSE [kind |-> "returned", value |-> Apology]
    /\ pc' = "g_return"
    /\ UNCHANGED <<request, question, context, prompt, http, bootVars, pureVars>>

\* the function returns; the /query handler wraps the answer (app.py:81-84)
Gen_Return ==
    /\ pc = "g_return"
    /\ http' = IF request.entry = "query"
               THEN SuccessResponse(question, gen.value)
               ELSE http
    /\ pc' = "done"
    /\ UNCHANGED <<request, question, log, context, prompt, gen, bootVars, pureVars>>

Next ==
    \/ StartupNoKey
    \/ StartupLoad
    \/ StartupBuildFail
    \/ StartupBuild
    \/ Query_Receive
    \/ Query_Validate
    \/ Query_Generate
    \/ Direct_Call
    \/ Gen_Retrieve
    \/ Gen_Compose
    \/ Gen_Complete
    \/ Gen_Return

Spec == InitApp /\ [][Next]_vars

-----------------------------------------------------------------------------
(* The claims *)

Range(f) == {f[i] : i \in DOMAIN f}

Count(f, x) == Cardinality({i \in DOMAIN f : f[i] = x})

IsPrefix(a, b) == Len(a) <= Len(b) /\ SubSeq(b, 1, Len(a)) = a

Trimmed(s) == s = <<>> \/ (s[1] \notin Whitespace /\ s[Len(s)] \notin Whitespace)

\* a is b with some characters removed, the others in the same order
RECURSIVE IsSubsequence(_, _)
IsSubsequence(a, b) ==
    IF a = <<>> THEN TRUE
    ELSE IF b = <<>> THEN FALSE
    ELSE IF Head(a) = Head(b) THEN IsSubsequence(Tail(a), Tail(b))
    ELSE IsSubsequence(a, Tail(b))

\* the order of the stages of one /query request
StageOrder == <<"empty_check", "validate", "retrieve", "compose", "complete">>

\* the question a /query request carries, trimmed
Asked(r) == IF r.field = "text" THEN Strip(r.text) ELSE <<>>

\* a term occurs in q at some offset, each character in either case
OccursIgnoringCase(q, term) ==
    \E off \in 0..(Len(q) - Len(term)) :
        \A j \in 1..Len(term) : q[off + j] \in {term[j], UpperChar(term[j])}

InDomain(q) == \E term \in medical_indicators : OccursIgnoringCase(q, term)

\* C1: a /query request with a non-empty, validated question, for which
\* retrieval and the completion call succeed, is answered with the success
\* payload {question, answer}, the answer being the cleaned completion text
C1_SuccessPayload ==
    (/\ pc = "done"
     /\ request.entry = "query"
     /\ request.field = "text"
     /\ Asked(request) # <<>>
     /\ InDomain(Asked(request))
     /\ ~request.search_fails
     /\ request.completion.kind = "ok")
        => http = SuccessResponse(Asked(request),
                                  format_medical_response(request.completion.content))

\* C2: within one /query request the stages run in the order empty-check,
\* Validator, Retriever, Composer, Generator; the Validator is never invoked
\* for an empty question, and neither the search nor the completion endpoint
\* for a question that is empty or that the Validator rejected
C2_StageOrder ==
    /\ request.entry = "query" =>
        /\ IsPrefix(log, StageOrder)
        /\ (request.field # "text" \/ Asked(request) = <<>>) =>
               "validate" \notin Range(log)
        /\ (request.field # "text" \/ Asked(request) = <<>> \/ ~InDomain(Asked(request))) =>
               Range(log) \cap {"retrieve", "compose", "complete"} = {}
        /\ (http.kind = "error" /\ http.status = 400) => pc = "done"
    /\ request.entry = "direct" => IsPrefix(log, SubSeq(StageOrder, 3, 5))

\* a request the Validator rejected ended after the empty check and the
\* Validator alone
C2_Witness ==
    /\ pc = "done"
    /\ request.entry = "query"
    /\ request.field = "text"
    /\ Asked(request) # <<>>
    /\ ~InDomain(Asked(request))
    /\ log = <<"empty_check", "validate">>
    /\ http = ErrorResponse(400, "Inappropriate query")

\* C3: every rejected /query request carries exactly one of three reasons,
\* by its cause alone: 'No question provided' (400) for a missing, empty or
\* whitespace-only question; 'Inappropriate query' (400) for a non-empty
\* question the Validator rejects; 'Internal server error' (500) only for an
\* internal failure while generating the answer of a validated question
C3_ThreeReasons ==
    (pc = "done" /\ request.entry = "query" /\ http.kind # "success") =>
        \/ /\ request.field \in {"absent", "text"}
           /\ Asked(request) = <<>>
           /\ http = ErrorResponse(400, "No question provided")
        \/ /\ request.field = "text"
           /\ Asked(request) # <<>>
           /\ ~InDomain(Asked(request))
           /\ http = ErrorResponse(400, "Inappropriate query")
        \/ /\ request.field = "text"
           /\ Asked(request) # <<>>
           /\ InDomain(Asked(request))
           /\ gen.kind = "raised"
           /\ http = ErrorResponse(500, "Internal server error")

\* C4: generate_medical_response calls the completion endpoint at most once
\* per invocation; when that call fails the function returns exactly the
\* apology, raises nothing and does not call again
C4_SingleAttempt ==
    /\ Count(log, "complete") <= 1
    /\ (/\ pc \in {"g_return", "done"}
        /\ "complete" \in Range(log)
        /\ request.completion.kind # "ok")
            => /\ gen = [kind |-> "returned", value |-> Apology]
               /\ Count(log, "complete") = 1

\* an invocation whose completion call failed has returned the apology
C4_Witness ==
    /\ pc = "done"
    /\ request.entry = "direct"
    /\ request.completion.kind = "no_choice"
    /\ Count(log, "complete") = 1
    /\ gen.value = Apology

C6_Idempotent ==
    /\ fmt.pc = "twice" => fmt.reformatted = fmt.formatted
    /\ (fmt.pc \in {"once", "twice"} /\ fmt.response = HelloWorld) =>
           fmt.formatted = HelloWorldClean

\* C7: the output of format_medical_response contains no '*', has no leading
\* or trailing whitespace and no run of three or more newlines; the remaining
\* characters are unchanged and in the same order
C7_Cleaned ==
    fmt.pc \in {"once", "twice"} =>
        /\ "*" \notin Range(fmt.formatted)
        /\ Trimmed(fmt.formatted)
        /\ ~Contains(fmt.formatted, <<NL, NL, NL>>)
        /\ IsSubsequence(fmt.formatted, fmt.response)

\* what the store yields for a retrieval
Yielded(r) == IF r.fails THEN 0 ELSE Min(r.top_k, Len(r.db))

\* t is s without its leading and trailing whitespace
IsTrimOf(t, s) ==
    /\ Trimmed(t)
    /\ \E a \in 0..Len(s) :
        /\ a + Len(t) <= Len(s)
        /\ SubSeq(s, a + 1, a + Len(t)) = t
        /\ \A i \in 1..Len(s) : (i <= a \/ i > a + Len(t)) => s[i] \in Whitespace

\* C8: retrieve_relevant_context returns exactly the sentinel when the store
\* yields no result; otherwise, for the n = min(top_k, stored chunks) results,
\* exactly n blocks in the store's order, ranked 1..n, each pairing its rank
\* with that result's score and trimmed text
C8_RankedBlocks ==
    ret.pc = "done" =>
        LET n == Yielded(ret)
            blocks == Pieces(ret.out)
        IN  IF n = 0
            THEN ret.out = NoInfoSentinel /\ ret.out # <<>>
            ELSE /\ Len(blocks) = n
                 /\ \A i \in 1..n :
                     /\ blocks[i].rank = i
                     /\ blocks[i].relevance * 10 - ret.db[i].score \in -5..5
                     /\ IsTrimOf(blocks[i].text, ret.db[i].text)

\* a store smaller than top_k gave as many blocks as it holds chunks
C8_Witness ==
    /\ ret.pc = "done"
    /\ ~ret.fails
    /\ Len(ret.db) = 2
    /\ ret.top_k > Len(ret.db)
    /\ Len(Pieces(ret.out)) = 2
    /\ Pieces(ret.out)[2].rank = 2

\* C9: validate_medical_query is true exactly when the query contains a term
\* of the indicator list, whatever the case of the query's letters; it leaves
\* the query alone and answers for every string, the empty one included
C9_KeywordGate ==
    val.pc = "done" =>
        /\ val.is_medical \in BOOLEAN
        /\ val.is_medical <=> InDomain(val.query)
        /\ val.query = <<>> => ~val.is_medical

\* a query accepted for a term it spells with a capital letter
C9_Witness ==
    /\ val.pc = "done"
    /\ val.is_medical
    /\ val.query # Lower(val.query)
    /\ Len(val.query) <= MaxQLen

\* C10 (as stated): when exactly one of the two files exists, startup ends in
\* an inconsistent-state error
C10_OneFileIsError ==
    (phase # "boot" /\ keySet /\ boot.index_seen # boot.meta_seen)
        => (phase = "fatal" /\ boot.error # "Failed to process PDF")

\* C10 (amended): the store is loaded only when both files exist; when exactly
\* one exists startup takes the build branch, which either fails on the
\* document or builds the store, writes both files and serves
C10_PairedArtifacts ==
    (phase # "boot" /\ keySet) =>
        /\ boot.branch \in {"load", "build"}
        /\ boot.branch = "load" <=> (boot.index_seen /\ boot.meta_seen)
        /\ boot.branch = "load" => phase = "serving" /\ vector_db = corpus
        /\ boot.index_seen # boot.meta_seen =>
            /\ boot.branch = "build"
            /\ boot.error \in {"", "Failed to process PDF"}
            /\ phase = "fatal" <=> corpus = <<>>
        /\ (boot.branch = "build" /\ phase = "serving") =>
            /\ files.index /\ files.meta
            /\ vector_db = corpus
        /\ phase = "serving" => (files.index /\ files.meta)

\* startup found one file of the pair, rebuilt the store and serves
C10_Witness ==
    /\ phase = "serving"
    /\ boot.branch = "build"
    /\ boot.index_seen # boot.meta_seen
    /\ files.index /\ files.meta
    /\ vector_db # <<>>

=============================================================================
